---- MODULE Spec2Model ----
(***************************************************************************)
(* Letterboxd DTDD extension: the content script's identity resolution     *)
(* (findDtddMedia / matchDtddResult), the vote classifier                  *)
(* (categorizeWarning) and the panel life cycle (loadData), together with  *)
(* the background fetch proxy that answers DTDD_FETCH messages.            *)
(*                                                                         *)
(* Line numbers refer to src/content.js (second script of the file, lines  *)
(* 372-807) and to src/unnamed/part_001 (background script).               *)
(***************************************************************************)
EXTENDS Integers, Sequences, FiniteSets, TLC

\* ------------------------------------------------------------------------
\* Bounds of the model
\* ------------------------------------------------------------------------
\* longest candidate list handed to matchDtddResult
MaxItems == 2
\* longest candidate list in a search response of the loadData flow
MaxSearchItems == 1
\* largest yes / no count of a topic stat
MaxVotes == 8
\* longest topic list handed to buildPanelHtml
MaxTopics == 3
\* most handleTopicToggle invocations
MaxToggles == 3
\* most starts of loadData on one page
MaxLoadRuns == 2

\* ------------------------------------------------------------------------
\* JavaScript values: null, undefined, numbers (NaN included) and strings
\* ------------------------------------------------------------------------
Null == [type |-> "null", num |-> 0, str |-> ""]
Undefined == [type |-> "undefined", num |-> 0, str |-> ""]
NaN == [type |-> "nan", num |-> 0, str |-> ""]
Num(n) == [type |-> "number", num |-> n, str |-> ""]
Str(s) == [type |-> "string", num |-> 0, str |-> s]

\* ToBoolean: null, undefined, NaN, 0 and "" are falsy
Truthy(v) ==
    CASE v.type = "null" -> FALSE
      [] v.type = "undefined" -> FALSE
      [] v.type = "nan" -> FALSE
      [] v.type = "number" -> v.num # 0
      [] v.type = "string" -> v.str # ""

\* a === b : same type and same value; NaN equals nothing
StrictEq(a, b) == a.type # "nan" /\ b.type # "nan" /\ a = b

\* String(v) and the coercion of `${v}`
JsString(v) ==
    CASE v.type = "null" -> "null"
      [] v.type = "undefined" -> "undefined"
      [] v.type = "nan" -> "NaN"
      [] v.type = "number" -> ToString(v.num)
      [] v.type = "string" -> v.str

\* the decimal strings the TMDB link (regex (\d+), content.js:411) and the
\* max-warnings input can carry
DigitStrings == {"0", "1", "01", "2"}

\* parseInt(v): the integer a decimal string denotes, NaN for anything else
ParseInt(v) ==
    IF v.type = "string" /\ v.str \in DigitStrings
    THEN Num(CASE v.str = "0" -> 0 [] v.str = "1" -> 1 [] v.str = "01" -> 1
               [] v.str = "2" -> 2)
    ELSE NaN

\* ------------------------------------------------------------------------
\* Search candidates (items of a dddsearch response)
\* ------------------------------------------------------------------------
\* item.itemType?.name : Undefined when the item has no itemType
ItemTypeNames == {Undefined, Str("Movie"), Str("TV Show")}
ItemNames == {Str("X"), Str("X 2020"), Str("Z")}
\* TMDB ids are positive integers; a candidate may have none
ItemTmdbIds == {Null, Num(1), Num(2)}
ItemReleaseYears == {Null, Num(2020)}

Items == [id : {1}, name : ItemNames, tmdbId : ItemTmdbIds,
          releaseYear : ItemReleaseYears, itemType : ItemTypeNames]

\* sequences over S of length at most n
SeqUpTo(S, n) == UNION {[1..k -> S] : k \in 0..n}

\* the candidate's id is its position in the response (ids are unique
\* within one response)
Numbered(list) == [i \in 1..Len(list) |-> [list[i] EXCEPT !.id = i]]

\* what fetchDtdd resolves to: null, or the JSON object of the response with
\* its optional items (dddsearch) and topicItemStats (media details)
NullResult == [kind |-> "null", hasItems |-> FALSE, items |-> <<>>,
               hasTopics |-> FALSE, topics |-> <<>>]
NoItems == [NullResult EXCEPT !.kind = "object"]
WithItems(list) ==
    [NoItems EXCEPT !.hasItems = TRUE, !.items = Numbered(list)]
WithTopics(stats) == [NoItems EXCEPT !.hasTopics = TRUE, !.topics = stats]

\* the Not Found sentinel of matchDtddResult and findDtddMedia
NoMatch == [id |-> 0, name |-> Null, tmdbId |-> Null,
            releaseYear |-> Null, itemType |-> Undefined]

\* ------------------------------------------------------------------------
\* matchDtddResult (content.js:464-490)
\* ------------------------------------------------------------------------
expectedType(isTv) == IF isTv THEN Str("TV Show") ELSE Str("Movie")

\* (mutant) the kind filter is dropped
TypeSkipped_NoFilter(item, isTv) == FALSE

\* line 473: the candidate is skipped for its kind
TypeSkipped(item, isTv) ==
    Truthy(item.itemType) /\ ~StrictEq(item.itemType, expectedType(isTv))

\* line 476: exact TMDB match
TmdbMatches(item, tmdbId) ==
    Truthy(tmdbId) /\ StrictEq(item.tmdbId, ParseInt(tmdbId))

\* (mutant) a candidate with another TMDB id is not skipped
TmdbSkipped_Never(item, tmdbId) == FALSE

\* line 479: the candidate has a different TMDB id
TmdbSkipped(item, tmdbId) ==
    Truthy(item.tmdbId) /\ Truthy(tmdbId)
        /\ ~StrictEq(item.tmdbId, ParseInt(tmdbId))

\* lines 482-483
nameMatches(item, title, year) ==
    \/ StrictEq(item.name, title)
    \/ StrictEq(item.name, Str(JsString(title) \o " " \o JsString(year)))

\* line 484
yearMatches(item, year) == JsString(item.releaseYear) = JsString(year)

\* (mutant) either the name or the year is enough
TextMatches_Either(item, title, year) ==
    nameMatches(item, title, year) \/ yearMatches(item, year)

\* line 486: both the name and the year must match
TextMatches(item, title, year) ==
    nameMatches(item, title, year) /\ yearMatches(item, year)

\* the for loop of lines 469-487, from candidate i on
RECURSIVE ScanFrom(_, _, _, _, _, _)
ScanFrom(items, i, tmdbId, title, year, isTv) ==
    IF i > Len(items) THEN NoMatch
    ELSE IF TypeSkipped(items[i], isTv)
         THEN ScanFrom(items, i + 1, tmdbId, title, year, isTv)
    ELSE IF TmdbMatches(items[i], tmdbId) THEN items[i]
    ELSE IF TmdbSkipped(items[i], tmdbId)
         THEN ScanFrom(items, i + 1, tmdbId, title, year, isTv)
    ELSE IF TextMatches(items[i], title, year) THEN items[i]
    ELSE ScanFrom(items, i + 1, tmdbId, title, year, isTv)

\* (mutant) two passes: any id match in the list wins over an earlier
\* name+year match
matchDtddResult_IdFirst(result, tmdbId, title, year, isTv) ==
    IF ~result.hasItems \/ Len(result.items) = 0 THEN NoMatch
    ELSE LET byId == {i \in 1..Len(result.items) :
                        /\ ~TypeSkipped(result.items[i], isTv)
                        /\ TmdbMatches(result.items[i], tmdbId)}
         IN IF byId # {}
            THEN result.items[CHOOSE i \in byId : \A j \in byId : i <= j]
            ELSE ScanFrom(result.items, 1, tmdbId, title, year, isTv)

matchDtddResult(result, tmdbId, title, year, isTv) ==
    \* line 465: !result?.items?.length
    IF ~result.hasItems \/ Len(result.items) = 0 THEN NoMatch
    ELSE ScanFrom(result.items, 1, tmdbId, title, year, isTv)

\* ------------------------------------------------------------------------
\* categorizeWarning (content.js:549-571)
\* ------------------------------------------------------------------------
\* ToNumber on the values a vote count can be
ToNumber(v) ==
    CASE v.type = "number" -> v
      [] v.type = "null" -> Num(0)
      [] OTHER -> NaN

\* a + b on vote counts
JsAdd(a, b) ==
    IF ToNumber(a).type = "nan" \/ ToNumber(b).type = "nan" THEN NaN
    ELSE Num(ToNumber(a).num + ToNumber(b).num)

\* a < b and a > b : false as soon as one side is NaN
JsLess(a, b) ==
    /\ ToNumber(a).type # "nan" /\ ToNumber(b).type # "nan"
    /\ ToNumber(a).num < ToNumber(b).num
JsGreater(a, b) == JsLess(b, a)

MIN_VOTES_THRESHOLD == 5

\* (mutant) the minimum-vote test is dropped
categorizeWarning_NoThreshold(stat) ==
    IF JsGreater(stat.yesSum, stat.noSum) THEN "yes"
    ELSE IF JsGreater(stat.noSum, stat.yesSum) THEN "no"
    ELSE "mixed"

\* (mutant) the labels of the two comparisons are exchanged
categorizeWarning_Swapped(stat) ==
    IF JsLess(JsAdd(stat.yesSum, stat.noSum), Num(MIN_VOTES_THRESHOLD))
    THEN "unknown"
    ELSE IF JsGreater(stat.yesSum, stat.noSum) THEN "no"
    ELSE IF JsGreater(stat.noSum, stat.yesSum) THEN "yes"
    ELSE "mixed"

\* (mutant) a tie counts as yes
categorizeWarning_TieIsYes(stat) ==
    IF JsLess(JsAdd(stat.yesSum, stat.noSum), Num(MIN_VOTES_THRESHOLD))
    THEN "unknown"
    ELSE IF ~JsLess(stat.yesSum, stat.noSum) THEN "yes"
    ELSE "no"

categorizeWarning(stat) ==
    LET totalVotes == JsAdd(stat.yesSum, stat.noSum)
    IN IF JsLess(totalVotes, Num(MIN_VOTES_THRESHOLD)) THEN "unknown"
       ELSE IF JsGreater(stat.yesSum, stat.noSum) THEN "yes"
       ELSE IF JsGreater(stat.noSum, stat.yesSum) THEN "no"
       ELSE "mixed"

\* topic stats (items of topicItemStats): the counts may be missing
VoteCounts == {Num(n) : n \in 0..MaxVotes} \cup {Undefined}
TopicIds == {1}
Stats == [topicId : TopicIds, isSensitive : BOOLEAN,
          yesSum : VoteCounts, noSum : VoteCounts]

\* ------------------------------------------------------------------------
\* buildPanelHtml, state 'loaded' (content.js:612-694)
\* ------------------------------------------------------------------------
\* line 618, and ?? 2 of lines 625-626
warningOrder(category) ==
    CASE category = "yes" -> 0
      [] category = "no" -> 1
      [] OTHER -> 2

\* lines 621-629: the comparator of the pinned topics
pinnedCompare(a, b) ==
    LET aOrder == warningOrder(categorizeWarning(a))
        bOrder == warningOrder(categorizeWarning(b))
    IN IF aOrder # bOrder THEN aOrder - bOrder
       ELSE b.yesSum.num - a.yesSum.num

\* line 636: the comparator of the automatic topics
yesCompare(a, b) == b.yesSum.num - a.yesSum.num

Compare(by, a, b) ==
    IF by = "pinned" THEN pinnedCompare(a, b) ELSE yesCompare(a, b)

\* Array.prototype.sort is stable: x goes before the first element that the
\* comparator puts after it
RECURSIVE InsertSorted(_, _, _)
InsertSorted(by, sorted, x) ==
    IF sorted = <<>> THEN <<x>>
    ELSE IF Compare(by, Head(sorted), x) <= 0
         THEN <<Head(sorted)>> \o InsertSorted(by, Tail(sorted), x)
    ELSE <<x>> \o sorted

RECURSIVE SortedFrom(_, _, _, _)
SortedFrom(by, list, i, sorted) ==
    IF i > Len(list) THEN sorted
    ELSE SortedFrom(by, list, i + 1, InsertSorted(by, sorted, list[i]))

Sort(by, list) == SortedFrom(by, list, 1, <<>>)

\* list.slice(0, n)
Slice(list, n) == SubSeq(list, 1, IF Len(list) < n THEN Len(list) ELSE n)

\* line 620
PinnedFilter(t, pinnedIds) == t.topicId \in pinnedIds

\* lines 619-629
pinnedTopics(topics, pinnedIds) ==
    Sort("pinned", SelectSeq(topics, LAMBDA t : PinnedFilter(t, pinnedIds)))

\* line 637: the length the automatic list is cut to
YES_TOPICS_LIMIT == 10

\* (mutant) the list is cut before the pinned topics are taken out
yesTopics_CutBeforeUnpinned(topics, pinnedIds) ==
    SelectSeq(Slice(Sort("yes", SelectSeq(topics,
                  LAMBDA t : categorizeWarning(t) = "yes")),
              YES_TOPICS_LIMIT),
              LAMBDA t : t.topicId \notin pinnedIds)

\* lines 632-637
yesTopics(topics, pinnedIds) ==
    Slice(Sort("yes", SelectSeq(topics,
              LAMBDA t : t.topicId \notin pinnedIds
                           /\ categorizeWarning(t) = "yes")),
          YES_TOPICS_LIMIT)

\* lines 648-653
statusClass(category) ==
    IF category = "no" THEN "dtdd-status-no"
    ELSE IF category = "unknown" THEN "dtdd-status-unknown"
    ELSE ""

\* lines 645-662: the <li> of the pinned topics
pinnedHtml(pinned) ==
    [i \in 1..Len(pinned) |->
        [stat |-> pinned[i],
         statusClass |-> statusClass(categorizeWarning(pinned[i]))]]

\* the vote counts of the topics handed to buildPanelHtml: no vote, a tie,
\* two clear yes and a clear no
RankCounts == {<<0, 0>>, <<3, 3>>, <<MaxVotes, 1>>, <<5, 0>>, <<1, MaxVotes>>}
RankStats == {[topicId |-> 1, isSensitive |-> sv, yesSum |-> Num(c[1]),
               noSum |-> Num(c[2])] : sv \in BOOLEAN, c \in RankCounts}

\* a topic list: the topic ids are the positions
WithTopicIds(list) == [i \in 1..Len(list) |-> [list[i] EXCEPT !.topicId = i]]
TopicLists == {WithTopicIds(l) : l \in SeqUpTo(RankStats, MaxTopics)}

\* a topic list one longer than the automatic list can be: any topic,
\* followed by topics classified yes
YesStat == [topicId |-> 1, isSensitive |-> FALSE, yesSum |-> Num(5),
            noSum |-> Num(0)]
Padded(st) ==
    WithTopicIds([i \in 1..YES_TOPICS_LIMIT + 1 |->
                     IF i = 1 THEN st ELSE YesStat])
LongTopicLists == {Padded(st) : st \in RankStats}

\* the values typed into the max-warnings input
MaxWarningsInputs == {"", "0", "1"}
DEFAULT_MAX_WARNINGS == 5

\* ------------------------------------------------------------------------
\* State
\* ------------------------------------------------------------------------
VARIABLES
    \* one call of matchDtddResult: its arguments, its return value
    mArgs, mRet, mCalled,
    \* the page: what scrapeIds and scrapeFilmInfo read from it
    page,
    \* loadData / findDtddMedia: the await the run is suspended at
    pc,
    \* the DTDD_FETCH messages sent so far, by purpose
    calls,
    \* the message in flight: "none", "sent" or "answered", and its response
    msg, response,
    \* the value findDtddMedia returned, once it has returned
    media, resolved,
    \* the state the panel shows
    panel,
    \* history: first candidate of the IMDb-id search, the tier that accepted
    \* a match, the tier whose response was consumed last and how it ended
    tier1Item, foundTier, lastTier, lastOutcome,
    \* one call of categorizeWarning: its argument, its return value
    cStat, cCategory, cCalled,
    \* two calls of categorizeWarning: the arguments, the return values
    pStatA, pStatB, pCatA, pCatB,
    \* buildPanelHtml('loaded', ...): the topics and pinned ids it is given,
    \* the pinned and the automatic list it renders
    rTopics, rPinnedIds, rPinnedList, rAutoList, rBuilt,
    \* history: the stored 'dtdd-max-warnings' when the panel was built
    rCap,
    \* the settings page: the stored 'dtdd-max-warnings' and the value whose
    \* debounced save is pending
    storedMax, pendingMax,
    \* the settings page: the stored 'dtdd-pinned-topics', the checkboxes,
    \* and the handleTopicToggle invocations in the order of their events
    storedPinned, checkbox, toggles, storageQueue,
    \* one message to the background listener: its name, the await the
    \* listener's async function is suspended at, whether X-API-KEY is set,
    \* the responses handed to sendResponse
    bgName, bgPc, bgApiKey, bgSent,
    \* the promise of the fetchDtdd call behind the message: its state, its
    \* value, and how often the sendMessage callback ran
    fPromise, fValue, fCallbacks,
    \* the page around the panel: whether the element the panel is inserted
    \* after exists, the MutationObserver of init and its 10 s timer, and how
    \* often loadData was started
    insertPoint, observer, timer, loadRuns

matchVars == <<mArgs, mRet, mCalled>>
loadVars == <<page, pc, calls, msg, response, media, resolved, panel,
              tier1Item, foundTier, lastTier, lastOutcome>>
classVars == <<cStat, cCategory, cCalled>>
pairVars == <<pStatA, pStatB, pCatA, pCatB>>
rankVars == <<rTopics, rPinnedIds, rPinnedList, rAutoList, rBuilt, rCap,
              storedMax, pendingMax>>
toggleVars == <<storedPinned, checkbox, toggles, storageQueue>>
fetchVars == <<bgName, bgPc, bgApiKey, bgSent, fPromise, fValue, fCallbacks>>
initVars == <<insertPoint, observer, timer, loadRuns>>
restVars == <<pairVars, rankVars, toggleVars, fetchVars, initVars>>
vars == <<matchVars, loadVars, classVars, restVars>>

\* the scraped values (scrapeIds, scrapeFilmInfo: null or a non-empty string)
ScrapedTmdbIds == {Null, Str("1")}
ScrapedYears == {Null, Str("2020")}

\* the response of a message that has not been answered
NoResponse == [lastError |-> FALSE, error |-> Null, data |-> NullResult,
               via |-> "none"]

IdlePage == [imdbId |-> Null, tmdbId |-> Null, isTv |-> FALSE, title |-> Null,
             year |-> Null, nativeTitle |-> Null]

\* no observer, no timer, loadData not started
InitIdle ==
    /\ insertPoint = TRUE
    /\ observer = "none"
    /\ timer = "none"
    /\ loadRuns = 0

\* no page is being loaded
LoadIdle ==
    /\ InitIdle
    /\ page = IdlePage
    /\ pc = "off"
    /\ calls = <<>>
    /\ msg = "none"
    /\ response = NoResponse
    /\ media = NoMatch
    /\ resolved = FALSE
    /\ panel = "none"
    /\ tier1Item = NoMatch
    /\ foundTier = 0
    /\ lastTier = 0
    /\ lastOutcome = "none"

\* no call of matchDtddResult is being examined
MatchIdle ==
    /\ mArgs = [result |-> NullResult, tmdbId |-> Null, title |-> Str("X"),
                year |-> Null, isTv |-> FALSE]
    /\ mRet = NoMatch
    /\ mCalled = TRUE

\* no call of categorizeWarning is being examined
ClassIdle ==
    /\ cStat = [topicId |-> 1, isSensitive |-> FALSE, yesSum |-> Num(0),
                noSum |-> Num(0)]
    /\ cCategory = "none"
    /\ cCalled = TRUE

\* no pair of calls of categorizeWarning is being examined
PairIdle ==
    /\ pStatA = [topicId |-> 1, isSensitive |-> FALSE, yesSum |-> Num(0),
                 noSum |-> Num(0)]
    /\ pStatB = pStatA
    /\ pCatA = "off"
    /\ pCatB = "off"

\* no panel is being built, the settings page is closed
RankIdle ==
    /\ rTopics = <<>>
    /\ rPinnedIds = {}
    /\ rPinnedList = <<>>
    /\ rAutoList = <<>>
    /\ rBuilt = TRUE
    /\ rCap = Undefined
    /\ storedMax = Undefined
    /\ pendingMax = Undefined

\* no topic is being toggled
\* the topics listed on the settings page
ToggleTopics == {1, 2}

ToggleIdle ==
    /\ storedPinned = {}
    /\ checkbox = [t \in ToggleTopics |-> FALSE]
    /\ toggles = <<>>
    /\ storageQueue = <<>>

\* no message is being followed through the background listener
FetchIdle ==
    /\ bgName = "none"
    /\ bgPc = "off"
    /\ bgApiKey = FALSE
    /\ bgSent = <<>>
    /\ fPromise = "none"
    /\ fValue = NullResult
    /\ fCallbacks = 0

RestIdle == PairIdle /\ RankIdle /\ ToggleIdle /\ FetchIdle

\* ------------------------------------------------------------------------
\* A call of matchDtddResult on arbitrary arguments
\* ------------------------------------------------------------------------
MatchArgs == [result : {NullResult, NoItems}
                         \cup {WithItems(l) : l \in SeqUpTo(Items, MaxItems)},
              tmdbId : ScrapedTmdbIds, title : {Str("X")},
              year : ScrapedYears, isTv : BOOLEAN]

InitMatch ==
    /\ mArgs \in MatchArgs
    /\ mRet = NoMatch
    /\ mCalled = FALSE
    /\ LoadIdle
    /\ ClassIdle
    /\ RestIdle

Match ==
    /\ ~mCalled
    /\ mCalled' = TRUE
    /\ mRet' = matchDtddResult(mArgs.result, mArgs.tmdbId, mArgs.title,
                               mArgs.year, mArgs.isTv)
    /\ UNCHANGED <<mArgs, loadVars, classVars, restVars>>

NextMatch == Match

SpecMatch == InitMatch /\ [][NextMatch]_vars

\* ------------------------------------------------------------------------
\* fetchDtdd and the background listener
\* ------------------------------------------------------------------------
\* fetchDtdd's callback (content.js:441-457): what the promise resolves to
fetchDtdd(resp) ==
    IF resp.lastError THEN NullResult
    ELSE IF Truthy(resp.error) THEN NullResult
    \* line 456: response?.data || null (a JSON null body is NullResult)
    ELSE resp.data

\* the candidates a search of the loadData flow can return
SearchItems == {it \in Items : it.itemType # Undefined}
SearchPayloads == {NullResult, NoItems}
    \cup {WithItems(l) : l \in SeqUpTo(SearchItems, MaxSearchItems)}

\* one topic stat stands for a non-empty topic list in this flow
SomeTopic == [topicId |-> 1, isSensitive |-> FALSE,
              yesSum |-> Num(MaxVotes), noSum |-> Num(1)]
DetailsPayloads == {NullResult, NoItems, WithTopics(<<>>),
                    WithTopics(<<SomeTopic>>)}

\* the JSON bodies the service can answer the pending request with
Payloads == IF calls # <<>> /\ calls[Len(calls)] = "details"
            THEN DetailsPayloads ELSE SearchPayloads

\* part_001:41-42: the fetch succeeded, the parsed body is sent back
BgRespondData ==
    /\ msg = "sent"
    /\ \E json \in Payloads :
          response' = [lastError |-> FALSE, error |-> Null, data |-> json,
                       via |-> "data"]
    /\ msg' = "answered"
    /\ UNCHANGED <<matchVars, classVars, restVars, page, pc, calls, media, resolved, panel,
                   tier1Item, foundTier, lastTier, lastOutcome>>

\* part_001:36-39: the status is not OK
BgRespondHttpError ==
    /\ msg = "sent"
    /\ response' = [lastError |-> FALSE, error |-> Str("HTTP 500"),
                    data |-> NullResult, via |-> "http"]
    /\ msg' = "answered"
    /\ UNCHANGED <<matchVars, classVars, restVars, page, pc, calls, media, resolved, panel,
                   tier1Item, foundTier, lastTier, lastOutcome>>

\* part_001:43-45: storage, fetch or json() threw
BgRespondException ==
    /\ msg = "sent"
    /\ response' = [lastError |-> FALSE, error |-> Str("Failed to fetch"),
                    data |-> NullResult, via |-> "exception"]
    /\ msg' = "answered"
    /\ UNCHANGED <<matchVars, classVars, restVars, page, pc, calls, media, resolved, panel,
                   tier1Item, foundTier, lastTier, lastOutcome>>

\* content.js:442-449: the message could not be delivered; the callback runs
\* with chrome.runtime.lastError set and no response
MessageError ==
    /\ msg = "sent"
    /\ response' = [lastError |-> TRUE, error |-> Null, data |-> NullResult,
                    via |-> "message"]
    /\ msg' = "answered"
    /\ UNCHANGED <<matchVars, classVars, restVars, page, pc, calls, media, resolved, panel,
                   tier1Item, foundTier, lastTier, lastOutcome>>

\* how the fetch behind a consumed response ended
Outcome(resp) ==
    IF resp.via # "data" THEN resp.via
    ELSE IF resp.data.kind = "null" THEN "null"
    ELSE IF ~resp.data.hasItems \/ Len(resp.data.items) = 0 THEN "empty"
    ELSE "items"

\* ------------------------------------------------------------------------
\* findDtddMedia (content.js:495-535) inside loadData (content.js:761-800)
\* ------------------------------------------------------------------------
\* chrome.runtime.sendMessage of fetchDtdd, and the await on its promise
Send(purpose, at) ==
    /\ calls' = Append(calls, purpose)
    /\ msg' = "sent"
    /\ response' = NoResponse
    /\ pc' = at

\* (mutant) a candidate without a TMDB id is not accepted
Tier1Accepts_NeedsSameId(item, tmdbId) ==
    \/ ~Truthy(tmdbId)
    \/ StrictEq(item.tmdbId, ParseInt(tmdbId))

\* (mutant) the first candidate is taken whatever its TMDB id
Tier1Accepts_Always(item, tmdbId) == TRUE

\* line 509: the first candidate of the IMDb-id search is accepted
Tier1Accepts(item, tmdbId) ==
    \/ ~Truthy(tmdbId)
    \/ ~Truthy(item.tmdbId)
    \/ StrictEq(item.tmdbId, ParseInt(tmdbId))

\* lines 507-513: dtddData after Tier 1
Tier1Data(result) ==
    IF result.hasItems /\ Len(result.items) > 0
          /\ Tier1Accepts(result.items[1], page.tmdbId)
    THEN result.items[1] ELSE NoMatch

\* line 505
NeedsTier1 == Truthy(page.imdbId)

\* (mutant) the title search is given up when the previous fetch failed
NeedsTier2_UnlessFetchFailed(dtddData) ==
    /\ dtddData = NoMatch /\ Truthy(page.title)
    /\ pc = "wait1" => fetchDtdd(response) # NullResult

\* line 517
NeedsTier2(dtddData) == dtddData = NoMatch /\ Truthy(page.title)

\* (mutant) the native-title search does not look at dtddData
NeedsTier3_Always(dtddData) == Truthy(page.nativeTitle)

\* line 526
NeedsTier3(dtddData) == dtddData = NoMatch /\ Truthy(page.nativeTitle)

\* (mutant) a null media is not noticed
MediaMissing_Never(m) == FALSE

\* line 769: !media
MediaMissing(m) == m = NoMatch

\* lines 534 and 769-776: findDtddMedia returns dtddData to loadData, which
\* shows 'not-found' or goes on to fetch the details
Resolved(dtddData) ==
    /\ media' = dtddData
    /\ resolved' = TRUE
    /\ IF MediaMissing(dtddData)
       THEN /\ panel' = "not-found"
            /\ pc' = "done"
            /\ msg' = "none"
            /\ response' = NoResponse
            /\ UNCHANGED calls
       ELSE /\ Send("details", "waitDetails")
            /\ UNCHANGED panel

\* findDtddMedia from the end of tier k on, up to its next await or return
AfterTier3(dtddData) == Resolved(dtddData)

AfterTier2(dtddData) ==
    IF NeedsTier3(dtddData)
    THEN Send("native", "wait3") /\ UNCHANGED <<media, resolved, panel>>
    ELSE AfterTier3(dtddData)

AfterTier1(dtddData) ==
    IF NeedsTier2(dtddData)
    THEN Send("title", "wait2") /\ UNCHANGED <<media, resolved, panel>>
    ELSE AfterTier2(dtddData)

\* a page with its loading panel injected; loadData awaits the pinned ids
Pages == [imdbId : {Null, Str("tt1")}, tmdbId : {Null, Str("1")},
          isTv : BOOLEAN, title : {Null, Str("X")}, year : ScrapedYears,
          nativeTitle : {Null, Str("Z")}]

InitLoad ==
    /\ page \in Pages
    /\ insertPoint = TRUE
    /\ observer = "none"
    /\ timer = "none"
    /\ loadRuns = 1
    /\ pc = "storage"
    /\ calls = <<>>
    /\ msg = "none"
    /\ response = NoResponse
    /\ media = NoMatch
    /\ resolved = FALSE
    /\ panel = "loading"
    /\ tier1Item = NoMatch
    /\ foundTier = 0
    /\ lastTier = 0
    /\ lastOutcome = "none"
    /\ MatchIdle
    /\ ClassIdle
    /\ RestIdle

\* lines 764-767, 496-506: the pinned ids arrive, findDtddMedia starts
StorageLoaded ==
    /\ pc = "storage"
    /\ IF NeedsTier1
       THEN Send("imdb", "wait1") /\ UNCHANGED <<media, resolved, panel>>
       ELSE AfterTier1(NoMatch)
    /\ UNCHANGED <<matchVars, classVars, restVars, page, tier1Item, foundTier, lastTier,
                   lastOutcome>>

\* lines 764, 796-799: chrome.storage.sync.get rejects
StorageFailed ==
    /\ pc = "storage"
    /\ panel' = "error"
    /\ pc' = "done"
    /\ UNCHANGED <<matchVars, classVars, restVars, page, calls, msg, response, media, resolved,
                   tier1Item, foundTier, lastTier, lastOutcome>>

\* lines 506-514 and on: the IMDb-id search is answered
Tier1Response ==
    /\ pc = "wait1" /\ msg = "answered"
    /\ LET result == fetchDtdd(response)
           dtddData == Tier1Data(result)
       IN /\ tier1Item' = IF result.hasItems /\ Len(result.items) > 0
                          THEN result.items[1] ELSE NoMatch
          /\ foundTier' = IF dtddData # NoMatch THEN 1 ELSE 0
          /\ AfterTier1(dtddData)
    /\ lastTier' = 1
    /\ lastOutcome' = Outcome(response)
    /\ UNCHANGED <<matchVars, classVars, restVars, page>>

\* lines 518-523 and on: the title search is answered
Tier2Response ==
    /\ pc = "wait2" /\ msg = "answered"
    /\ LET result == fetchDtdd(response)
           dtddData == matchDtddResult(result, page.tmdbId, page.title,
                                       page.year, page.isTv)
       IN /\ foundTier' = IF dtddData # NoMatch THEN 2 ELSE 0
          /\ AfterTier2(dtddData)
    /\ lastTier' = 2
    /\ lastOutcome' = Outcome(response)
    /\ UNCHANGED <<matchVars, classVars, restVars, page, tier1Item>>

\* lines 527-534 and on: the native-title search is answered
Tier3Response ==
    /\ pc = "wait3" /\ msg = "answered"
    /\ LET result == fetchDtdd(response)
           dtddData == matchDtddResult(result, page.tmdbId, page.nativeTitle,
                                       page.year, page.isTv)
       IN /\ foundTier' = IF dtddData # NoMatch THEN 3 ELSE 0
          /\ AfterTier3(dtddData)
    /\ lastTier' = 3
    /\ lastOutcome' = Outcome(response)
    /\ UNCHANGED <<matchVars, classVars, restVars, page, tier1Item>>

\* how the details fetch behind a consumed response ended
DetailsOutcome(resp) ==
    IF resp.via # "data" THEN resp.via
    ELSE IF resp.data.kind = "null" THEN "null"
    ELSE IF ~resp.data.hasTopics THEN "noTopics"
    ELSE IF Len(resp.data.topics) = 0 THEN "emptyTopics"
    ELSE "topics"

\* (mutant) an empty topic list counts as missing
DetailsMissing_OrEmpty(details) ==
    ~details.hasTopics \/ Len(details.topics) = 0

\* (mutant) only a null response counts as missing
DetailsMissing_OnlyNull(details) == details.kind = "null"

\* line 778: !details?.topicItemStats (an empty array is truthy)
DetailsMissing(details) == ~details.hasTopics

\* lines 776-795: the details are answered
DetailsResponse ==
    /\ pc = "waitDetails" /\ msg = "answered"
    /\ LET details == fetchDtdd(response)
       IN panel' = IF DetailsMissing(details) THEN "not-found" ELSE "loaded"
    /\ pc' = "done"
    /\ msg' = "none"
    /\ response' = NoResponse
    /\ lastTier' = 4
    /\ lastOutcome' = DetailsOutcome(response)
    /\ UNCHANGED <<matchVars, classVars, restVars, page, calls, media, resolved, tier1Item,
                   foundTier>>

Next ==
    \/ StorageLoaded
    \/ StorageFailed
    \/ BgRespondData
    \/ BgRespondHttpError
    \/ BgRespondException
    \/ MessageError
    \/ Tier1Response
    \/ Tier2Response
    \/ Tier3Response
    \/ DetailsResponse

Spec == InitLoad /\ [][Next]_vars

\* ------------------------------------------------------------------------
\* init (content.js:741-759, 802-806) in front of loadData
\* ------------------------------------------------------------------------
\* lines 707-724: injectPanel returns true when a panel exists (it is
\* replaced) or the insert point exists (the panel is inserted after it)
injectPanel(existing, point) == existing # "none" \/ point

\* (mutant) the observer goes on observing after the panel is injected
ObserverAfterInject_StillObserving == "observing"

\* line 748: obs.disconnect()
ObserverAfterInject == "disconnected"

\* lines 749, 758, 761-764: loadData is called and stops at storage.get
StartLoadData ==
    /\ loadRuns < MaxLoadRuns
    /\ loadRuns' = loadRuns + 1
    /\ pc' = "storage"

\* the pages of the lifecycle: each search of findDtddMedia is needed on
\* some of them
LifecyclePages == {p \in Pages : p.tmdbId = Null /\ p.year = Null /\ ~p.isTv}

\* the script is injected while the document is loading or after
InitLifecycle ==
    /\ page \in LifecyclePages
    /\ insertPoint \in BOOLEAN
    /\ observer = "none"
    /\ timer = "none"
    /\ loadRuns = 0
    /\ pc \in {"domLoading", "start"}
    /\ calls = <<>>
    /\ msg = "none"
    /\ response = NoResponse
    /\ media = NoMatch
    /\ resolved = FALSE
    /\ panel = "none"
    /\ tier1Item = NoMatch
    /\ foundTier = 0
    /\ lastTier = 0
    /\ lastOutcome = "none"
    /\ MatchIdle /\ ClassIdle
    /\ PairIdle /\ RankIdle /\ ToggleIdle /\ FetchIdle

\* lines 741-759, called at once or on DOMContentLoaded (lines 802-806)
init ==
    /\ pc \in {"domLoading", "start"}
    /\ IF injectPanel(panel, insertPoint)
       THEN /\ panel' = "loading"
            /\ StartLoadData
            /\ UNCHANGED <<observer, timer>>
       ELSE /\ observer' = "observing"
            /\ timer' = "armed"
            /\ pc' = "waitDom"
            /\ UNCHANGED <<panel, loadRuns>>
    /\ UNCHANGED <<insertPoint, page, calls, msg, response, media, resolved,
                   tier1Item, foundTier, lastTier, lastOutcome>>
    /\ UNCHANGED <<matchVars, classVars, pairVars, rankVars, toggleVars,
                   fetchVars>>

\* the page changes under document.body; lines 746-751: the callback of an
\* observing MutationObserver runs. Once the panel exists and no observer
\* observes, the program reads nothing the page can change.
DomMutation ==
    /\ panel = "none" \/ observer = "observing"
    /\ \E point \in BOOLEAN :
          /\ insertPoint' = point
          /\ IF observer = "observing" /\ injectPanel(panel, point)
             THEN /\ panel' = "loading"
                  /\ observer' = ObserverAfterInject
                  /\ StartLoadData
             ELSE UNCHANGED <<panel, observer, loadRuns, pc>>
    /\ UNCHANGED <<timer, page, calls, msg, response, media, resolved,
                   tier1Item, foundTier, lastTier, lastOutcome>>
    /\ UNCHANGED <<matchVars, classVars, pairVars, rankVars, toggleVars,
                   fetchVars>>

\* line 754: the timer disconnects the observer
ObserverTimeout ==
    /\ timer = "armed"
    /\ timer' = "fired"
    /\ observer' = "disconnected"
    /\ UNCHANGED <<insertPoint, loadRuns, loadVars>>
    /\ UNCHANGED <<matchVars, classVars, pairVars, rankVars, toggleVars,
                   fetchVars>>

NextLifecycle ==
    \/ init
    \/ DomMutation
    \/ ObserverTimeout
    \/ Next

SpecLifecycle == InitLifecycle /\ [][NextLifecycle]_vars

\* storage.get settles, every fetch message is answered and the awaiting
\* code is resumed
FairSpecLifecycle == SpecLifecycle /\ WF_vars(Next)

\* ------------------------------------------------------------------------
\* A call of categorizeWarning on an arbitrary topic stat
\* ------------------------------------------------------------------------
InitClassify ==
    /\ cStat \in Stats
    /\ cCategory = "none"
    /\ cCalled = FALSE
    /\ MatchIdle
    /\ LoadIdle
    /\ RestIdle

Classify ==
    /\ ~cCalled
    /\ cCalled' = TRUE
    /\ cCategory' = categorizeWarning(cStat)
    /\ UNCHANGED <<cStat, matchVars, loadVars, restVars>>

NextClassify == Classify

SpecClassify == InitClassify /\ [][NextClassify]_vars

\* ------------------------------------------------------------------------
\* Two calls of categorizeWarning on arbitrary well-formed topic stats
\* ------------------------------------------------------------------------
CountedStats == {st \in Stats : st.yesSum.type = "number"
                                  /\ st.noSum.type = "number"
                                  /\ ~st.isSensitive}

InitPair ==
    /\ pStatA \in CountedStats
    /\ pStatB \in CountedStats
    /\ pCatA = "none"
    /\ pCatB = "none"
    /\ MatchIdle /\ LoadIdle /\ ClassIdle /\ FetchIdle /\ RankIdle /\ ToggleIdle

ClassifyFirst ==
    /\ pCatA = "none"
    /\ pCatA' = categorizeWarning(pStatA)
    /\ UNCHANGED <<pStatA, pStatB, pCatB, matchVars, loadVars, initVars,
                   classVars, fetchVars,
                   rankVars, toggleVars>>

ClassifySecond ==
    /\ pCatB = "none"
    /\ pCatB' = categorizeWarning(pStatB)
    /\ UNCHANGED <<pStatA, pStatB, pCatA, matchVars, loadVars, initVars,
                   classVars, fetchVars,
                   rankVars, toggleVars>>

NextPair == ClassifyFirst \/ ClassifySecond

SpecPair == InitPair /\ [][NextPair]_vars

\* ------------------------------------------------------------------------
\* buildPanelHtml on arbitrary topics, next to the settings page
\* ------------------------------------------------------------------------
InitRank ==
    /\ rTopics \in TopicLists \cup LongTopicLists
    /\ rPinnedIds \in SUBSET (1..MaxTopics)
    /\ rPinnedList = <<>>
    /\ rAutoList = <<>>
    /\ rBuilt = FALSE
    /\ rCap = Undefined
    /\ storedMax = Undefined
    /\ pendingMax = Undefined
    /\ MatchIdle /\ LoadIdle /\ ClassIdle /\ FetchIdle /\ PairIdle /\ ToggleIdle

\* part_003:418-435: the input changes; a valid value (re)starts the
\* debounce timer
handleMaxWarningsChange ==
    /\ \E input \in MaxWarningsInputs :
          LET value == ParseInt(Str(input))
          IN IF value.type = "nan" \/ value.num < 1
             THEN UNCHANGED pendingMax
             ELSE pendingMax' = value
    /\ UNCHANGED <<rTopics, rPinnedIds, rPinnedList, rAutoList, rBuilt, rCap,
                   storedMax>>
    /\ UNCHANGED <<matchVars, loadVars, initVars, classVars, fetchVars, pairVars, toggleVars>>

\* part_003:429-434: the timer fires, the value is stored
SaveMaxWarnings ==
    /\ pendingMax # Undefined
    /\ storedMax' = pendingMax
    /\ pendingMax' = Undefined
    /\ UNCHANGED <<rTopics, rPinnedIds, rPinnedList, rAutoList, rBuilt, rCap>>
    /\ UNCHANGED <<matchVars, loadVars, initVars, classVars, fetchVars, pairVars, toggleVars>>

\* content.js:786-795, 612-662: the panel is built from the topics and the
\* pinned ids; 'dtdd-max-warnings' is not read
BuildPanel ==
    /\ ~rBuilt
    /\ rBuilt' = TRUE
    /\ rCap' = storedMax
    /\ rPinnedList' = pinnedHtml(pinnedTopics(rTopics, rPinnedIds))
    /\ rAutoList' = yesTopics(rTopics, rPinnedIds)
    /\ UNCHANGED <<rTopics, rPinnedIds, storedMax, pendingMax>>
    /\ UNCHANGED <<matchVars, loadVars, initVars, classVars, fetchVars, pairVars, toggleVars>>

NextRank ==
    \/ handleMaxWarningsChange
    \/ SaveMaxWarnings
    \/ BuildPanel

SpecRank == InitRank /\ [][NextRank]_vars

\* ------------------------------------------------------------------------
\* The settings page: handleTopicToggle invocations on chrome.storage.sync
\* ------------------------------------------------------------------------
\* part_003:293-298, 327-330: the page is rendered from the stored pinned
\* ids, a checkbox is checked iff its topic is stored
InitToggle ==
    /\ storedPinned \in SUBSET ToggleTopics
    /\ checkbox = [t \in ToggleTopics |-> t \in storedPinned]
    /\ toggles = <<>>
    /\ storageQueue = <<>>
    /\ MatchIdle /\ LoadIdle /\ ClassIdle /\ FetchIdle /\ PairIdle /\ RankIdle

\* part_003:437-444: the user flips a checkbox; the handler reads the new
\* state of the checkbox and sends storage.get
handleTopicToggle ==
    /\ Len(toggles) < MaxToggles
    /\ \E t \in ToggleTopics :
          /\ checkbox' = [checkbox EXCEPT ![t] = ~checkbox[t]]
          /\ toggles' = Append(toggles, [topicId |-> t,
                                         isPinned |-> ~checkbox[t],
                                         pc |-> "get",
                                         pinnedIds |-> {}])
    /\ storageQueue' = Append(storageQueue, Len(toggles) + 1)
    /\ UNCHANGED storedPinned
    /\ UNCHANGED <<matchVars, loadVars, initVars, classVars, fetchVars, pairVars, rankVars>>

\* part_003:444-457: the oldest storage request is a get; its handler
\* resumes with the stored list, changes its copy and sends storage.set
StorageGetDone ==
    /\ storageQueue # <<>>
    /\ LET k == Head(storageQueue)
           h == toggles[k]
           pinnedIds == IF h.isPinned THEN storedPinned \cup {h.topicId}
                        ELSE storedPinned \ {h.topicId}
       IN /\ h.pc = "get"
          /\ toggles' = [toggles EXCEPT ![k].pc = "set",
                                        ![k].pinnedIds = pinnedIds]
          /\ storageQueue' = Append(Tail(storageQueue), k)
    /\ UNCHANGED <<storedPinned, checkbox>>
    /\ UNCHANGED <<matchVars, loadVars, initVars, classVars, fetchVars, pairVars, rankVars>>

\* part_003:455-458: the oldest storage request is a set; the copy is
\* stored and the handler returns
StorageSetDone ==
    /\ storageQueue # <<>>
    /\ LET k == Head(storageQueue)
       IN /\ toggles[k].pc = "set"
          /\ storedPinned' = toggles[k].pinnedIds
          /\ toggles' = [toggles EXCEPT ![k].pc = "done"]
    /\ storageQueue' = Tail(storageQueue)
    /\ UNCHANGED checkbox
    /\ UNCHANGED <<matchVars, loadVars, initVars, classVars, fetchVars, pairVars, rankVars>>

NextToggle ==
    \/ handleTopicToggle
    \/ StorageGetDone
    \/ StorageSetDone

SpecToggle == InitToggle /\ [][NextToggle]_vars

\* ------------------------------------------------------------------------
\* One message followed through the background listener (part_001:11-49)
\* and back to the callback of fetchDtdd (content.js:438-459)
\* ------------------------------------------------------------------------
\* the messages the content script sends (content.js:441, 733)
MessageNames == {"DTDD_FETCH", "OPEN_OPTIONS"}

\* the JSON bodies the service can answer a request with
FetchPayloads == SearchPayloads \cup DetailsPayloads

\* the statuses of a response that is not OK
ErrorStatuses == {404, 500}

\* part_001:37
HttpErrorResponse(status) ==
    [lastError |-> FALSE, error |-> Str("HTTP " \o ToString(status)),
     data |-> NullResult, via |-> "http"]

\* part_001:42
DataResponse(json) ==
    [lastError |-> FALSE, error |-> Null, data |-> json, via |-> "data"]

\* (mutant) the async function has no catch: nothing is sent back
BgCatch_Missing(sent, message) == sent

\* part_001:43-45: the catch block sends the message of the exception
BgCatch(sent, message) ==
    Append(sent, [lastError |-> FALSE, error |-> Str(message),
                  data |-> NullResult, via |-> "exception"])

\* content.js:439-457: the executor only has resolve, and a promise keeps
\* its first settlement
Resolve(value) ==
    /\ fPromise' = IF fPromise = "pending" THEN "resolved" ELSE fPromise
    /\ fValue' = IF fPromise = "pending" THEN value ELSE fValue

InitFetch ==
    /\ bgName \in MessageNames
    /\ bgPc = "sent"
    /\ bgApiKey = FALSE
    /\ bgSent = <<>>
    /\ fPromise = IF bgName = "DTDD_FETCH" THEN "pending" ELSE "none"
    /\ fValue = NullResult
    /\ fCallbacks = 0
    /\ MatchIdle /\ LoadIdle /\ ClassIdle /\ PairIdle /\ RankIdle /\ ToggleIdle

\* part_001:11-21, 48: the listener runs; for DTDD_FETCH it starts the async
\* function, which stops at storage.get, and returns true
BgListener ==
    /\ bgPc = "sent"
    /\ bgPc' = IF bgName # "DTDD_FETCH" THEN "returned" ELSE "storage"
    /\ UNCHANGED <<bgName, bgApiKey, bgSent, fPromise, fValue, fCallbacks>>
    /\ UNCHANGED <<matchVars, loadVars, initVars, classVars, pairVars, rankVars,
                   toggleVars>>

\* part_001:26-34: the key is read, the header set if there is one, and the
\* request sent
BgStorageLoaded ==
    /\ bgPc = "storage"
    /\ \E key \in BOOLEAN : bgApiKey' = key
    /\ bgPc' = "fetch"
    /\ UNCHANGED <<bgName, bgSent, fPromise, fValue, fCallbacks>>
    /\ UNCHANGED <<matchVars, loadVars, initVars, classVars, pairVars, rankVars,
                   toggleVars>>

\* part_001:31-41: fetch answers; a status that is not OK is reported
BgFetched ==
    /\ bgPc = "fetch"
    /\ \/ /\ bgPc' = "json"
          /\ UNCHANGED bgSent
       \/ \E status \in ErrorStatuses :
             /\ bgSent' = Append(bgSent, HttpErrorResponse(status))
             /\ bgPc' = "done"
    /\ UNCHANGED <<bgName, bgApiKey, fPromise, fValue, fCallbacks>>
    /\ UNCHANGED <<matchVars, loadVars, initVars, classVars, pairVars, rankVars,
                   toggleVars>>

\* part_001:41-42: the body is parsed and sent back
BgParsed ==
    /\ bgPc = "json"
    /\ \E json \in FetchPayloads : bgSent' = Append(bgSent, DataResponse(json))
    /\ bgPc' = "done"
    /\ UNCHANGED <<bgName, bgApiKey, fPromise, fValue, fCallbacks>>
    /\ UNCHANGED <<matchVars, loadVars, initVars, classVars, pairVars, rankVars,
                   toggleVars>>

\* part_001:43-45: storage.get, fetch or json() threw
BgThrew ==
    /\ bgPc \in {"storage", "fetch", "json"}
    /\ bgSent' = BgCatch(bgSent, "Failed to fetch")
    /\ bgPc' = "done"
    /\ UNCHANGED <<bgName, bgApiKey, fPromise, fValue, fCallbacks>>
    /\ UNCHANGED <<matchVars, loadVars, initVars, classVars, pairVars, rankVars,
                   toggleVars>>

\* content.js:441-449: the message reaches no listener; the callback runs
\* with chrome.runtime.lastError set
FetchNotDelivered ==
    /\ bgPc = "sent" /\ bgName = "DTDD_FETCH"
    /\ bgPc' = "lost"
    /\ fCallbacks' = fCallbacks + 1
    /\ Resolve(fetchDtdd([lastError |-> TRUE, error |-> Null,
                          data |-> NullResult, via |-> "message"]))
    /\ UNCHANGED <<bgName, bgApiKey, bgSent>>
    /\ UNCHANGED <<matchVars, loadVars, initVars, classVars, pairVars, rankVars,
                   toggleVars>>

\* content.js:441-457: the first response reaches the callback
FetchCallback ==
    /\ bgSent # <<>> /\ fCallbacks = 0
    /\ fCallbacks' = fCallbacks + 1
    /\ Resolve(fetchDtdd(bgSent[1]))
    /\ UNCHANGED <<bgName, bgPc, bgApiKey, bgSent>>
    /\ UNCHANGED <<matchVars, loadVars, initVars, classVars, pairVars, rankVars,
                   toggleVars>>

NextFetch ==
    \/ BgListener
    \/ BgStorageLoaded
    \/ BgFetched
    \/ BgParsed
    \/ BgThrew
    \/ FetchNotDelivered
    \/ FetchCallback

SpecFetch == InitFetch /\ [][NextFetch]_vars

\* every await of the listener settles and a sent response is delivered
FairSpecFetch == SpecFetch /\ WF_vars(NextFetch)

\* ------------------------------------------------------------------------
\* Properties of findDtddMedia and loadData (checked under Spec)
\* ------------------------------------------------------------------------
IsSearch(c) == c # "details"
SearchCalls == SelectSeq(calls, IsSearch)
TierOf(c) == CASE c = "imdb" -> 1 [] c = "title" -> 2 [] c = "native" -> 3

\* the scraped TMDB id as an integer
ScrapedTmdb == ParseInt(page.tmdbId)
Tier1IdEqual ==
    /\ tier1Item # NoMatch
    /\ tier1Item.tmdbId.type = "number" /\ ScrapedTmdb.type = "number"
    /\ tier1Item.tmdbId.num = ScrapedTmdb.num
\* both ids are present and disagree
Tier1Conflict ==
    /\ tier1Item # NoMatch
    /\ tier1Item.tmdbId.type = "number" /\ ScrapedTmdb.type = "number"
    /\ tier1Item.tmdbId.num # ScrapedTmdb.num

\* C1: the searches are issued in the order IMDb id, title, native title;
\* once a tier has accepted a match no search of a later tier is issued and
\* that match is what findDtddMedia returns; when the first candidate of the
\* IMDb-id search carries the scraped tmdbId it is returned and the IMDb-id
\* search is the only search issued.
C1_TiersInOrderShortCircuit ==
    /\ \A i, j \in 1..Len(SearchCalls) :
          i < j => TierOf(SearchCalls[i]) < TierOf(SearchCalls[j])
    /\ foundTier > 0 =>
          /\ resolved /\ media # NoMatch
          /\ \A i \in 1..Len(SearchCalls) : TierOf(SearchCalls[i]) <= foundTier
    /\ (lastTier >= 1 /\ Tier1IdEqual) =>
          /\ resolved /\ media = tier1Item
          /\ SearchCalls = <<"imdb">>

\* the IMDb-id search returned a candidate with the scraped tmdbId on a page
\* that has a title and a native title, and findDtddMedia has returned it
C1_Witness ==
    /\ Tier1IdEqual /\ foundTier = 1 /\ resolved
    /\ Truthy(page.title) /\ Truthy(page.nativeTitle)

\* C2: when the IMDb-id search returns at least one item, the first item is
\* accepted unless its tmdbId and the scraped tmdbId are both present and
\* disagree, and rejected in that case.
C2_Tier1AcceptedUnlessConflict ==
    (lastTier >= 1 /\ tier1Item # NoMatch) =>
        /\ foundTier = 1 <=> ~Tier1Conflict
        /\ foundTier = 1 => (resolved /\ media = tier1Item)

\* a first candidate without tmdbId was accepted on a page that has one
C2_Witness ==
    /\ lastTier >= 1 /\ tier1Item # NoMatch
    /\ tier1Item.tmdbId = Null /\ Truthy(page.tmdbId)
    /\ foundTier = 1 /\ media = tier1Item

\* C3 as stated: whenever the first candidate of the IMDb-id search has a
\* tmdbId that conflicts with the scraped one, Tier 1 is rejected and the
\* title search is issued.
C3_ConflictThenTitleSearch ==
    (lastTier >= 1 /\ Tier1Conflict) =>
        /\ foundTier # 1
        /\ \E i \in 1..Len(calls) : calls[i] = "title"

\* C3 amended: whenever the first candidate of the IMDb-id search has a
\* tmdbId that conflicts with the scraped one, Tier 1 is rejected, and the
\* title search is issued if the page has a title.
C3_ConflictThenTitleSearchIfTitle ==
    (lastTier >= 1 /\ Tier1Conflict) =>
        /\ foundTier # 1
        /\ Truthy(page.title) => \E i \in 1..Len(calls) : calls[i] = "title"

\* the IMDb-id search returned a conflicting candidate and the title search
\* is now pending
C3_Witness ==
    /\ lastTier = 1 /\ Tier1Conflict
    /\ pc = "wait2" /\ calls = <<"imdb", "title">>

\* C8: when no tier yields a match findDtddMedia returns null, and loadData
\* then shows 'not-found' (not 'error', not 'loaded') and ends.
C8_NoMatchIsNotFound ==
    /\ (resolved /\ foundTier = 0) => media = NoMatch
    /\ (resolved /\ media = NoMatch) => (pc = "done" /\ panel = "not-found")

\* all three searches were issued, the last one returned candidates, and
\* none was accepted
C8_Witness ==
    /\ resolved /\ media = NoMatch
    /\ SearchCalls = <<"imdb", "title", "native">>
    /\ lastTier = 3 /\ lastOutcome = "items"

\* the fetch behind the last consumed response failed
FailedOutcomes == {"message", "http", "exception", "null", "empty"}
\* the first tier after tier k that the page's data allows
NextApplicable(k) ==
    IF k < 2 /\ Truthy(page.title) THEN 2
    ELSE IF k < 3 /\ Truthy(page.nativeTitle) THEN 3
    ELSE 0

\* C9: a failed search fetch (message error, HTTP error, exception in the
\* background fetch, null or empty response) is no match for its tier only:
\* nothing is raised (the panel never shows 'error') and the search of the
\* next applicable tier is issued; when no tier is left the result is
\* Not Found.
C9_FailedFetchIsNoMatch ==
    (lastTier \in 1..3 /\ lastOutcome \in FailedOutcomes) =>
        /\ foundTier = 0
        /\ panel # "error"
        /\ CASE NextApplicable(lastTier) = 2 ->
                   pc = "wait2" /\ calls[Len(calls)] = "title" /\ ~resolved
             [] NextApplicable(lastTier) = 3 ->
                   pc = "wait3" /\ calls[Len(calls)] = "native" /\ ~resolved
             [] OTHER ->
                   resolved /\ media = NoMatch /\ panel = "not-found"

\* the IMDb-id fetch failed with an exception in the background, the title
\* fetch with an HTTP error, and the native-title search is pending
C9_Witness ==
    /\ lastTier = 2 /\ lastOutcome = "http"
    /\ calls = <<"imdb", "title", "native">> /\ pc = "wait3"

\* the details fetch ended without any topic-vote data
NoTopicData == {"message", "http", "exception", "null", "noTopics",
                "emptyTopics"}

\* C19 as stated: whenever the details fetch of a resolved entry returns no
\* topic-vote data (null response, missing topic list or empty topic list)
\* loadData shows the 'not-found' panel, as when nothing was resolved.
C19_EmptyDetailsIsNotFound ==
    (lastTier = 4 /\ lastOutcome \in NoTopicData) => panel = "not-found"

\* C19 amended: whenever the details fetch of a resolved entry returns a
\* null response or a response without topic list, loadData shows the
\* 'not-found' panel, as when nothing was resolved; an empty topic list
\* gives the 'loaded' panel.
C19_MissingDetailsIsNotFound ==
    /\ (lastTier = 4 /\ lastOutcome \in NoTopicData \ {"emptyTopics"}) =>
          panel = "not-found"
    /\ (lastTier = 4 /\ lastOutcome = "emptyTopics") => panel = "loaded"

\* the details of a resolved entry came back as an object without topic
\* list, and the panel shows 'not-found'
C19_Witness ==
    /\ lastTier = 4 /\ lastOutcome = "noTopics"
    /\ resolved /\ media # NoMatch
    /\ pc = "done" /\ panel = "not-found"

\* ------------------------------------------------------------------------
\* Properties of matchDtddResult (checked under SpecMatch)
\* ------------------------------------------------------------------------
mItems == mArgs.result.items
mReturned == mCalled /\ mRet # NoMatch

\* the kind label the page expects
ExpectedKind == IF mArgs.isTv THEN "TV Show" ELSE "Movie"
KindDiffers(item) ==
    item.itemType.type = "string" /\ item.itemType.str # ExpectedKind

\* the candidate's own TMDB id is present and is not the supplied one
IdPresent(item) == item.tmdbId.type = "number"
SuppliedId == ParseInt(mArgs.tmdbId)
IdEquals(item) ==
    IdPresent(item) /\ SuppliedId.type = "number"
        /\ item.tmdbId.num = SuppliedId.num
IdConflicts(item) ==
    IdPresent(item) /\ SuppliedId.type = "number"
        /\ item.tmdbId.num # SuppliedId.num

\* the two textual conditions, stated on the strings
NameOk(item) ==
    \/ item.name.str = mArgs.title.str
    \/ item.name.str = mArgs.title.str \o " " \o JsString(mArgs.year)
YearOk(item) == JsString(item.releaseYear) = JsString(mArgs.year)

\* C4: matchDtddResult never returns a candidate whose item-kind label is
\* present and differs from the expected kind ('TV Show' if isTv, else
\* 'Movie'), whatever its title, year or tmdbId.
C4_KindNeverMismatched ==
    mReturned =>
        /\ \E i \in 1..Len(mItems) : mItems[i] = mRet
        /\ ~KindDiffers(mRet)

\* a series candidate with the supplied title and year (or the supplied
\* tmdbId) was offered for a film, and the call returned something else
C4_Witness ==
    /\ mCalled /\ ~mArgs.isTv
    /\ \E i \in 1..Len(mItems) :
          /\ mItems[i].itemType = Str("TV Show")
          /\ (NameOk(mItems[i]) /\ YearOk(mItems[i])) \/ IdEquals(mItems[i])
          /\ mRet # mItems[i]

\* C5: matchDtddResult never returns a candidate whose own tmdbId is
\* present and differs from the supplied tmdbId, even when the candidate's
\* name and release year match.
C5_ConflictingIdNeverReturned ==
    mReturned => ~IdConflicts(mRet)

\* a candidate with a conflicting tmdbId whose name and year both match was
\* offered (with the right kind), and the call did not return it
C5_Witness ==
    /\ mCalled
    /\ \E i \in 1..Len(mItems) :
          /\ IdConflicts(mItems[i]) /\ ~KindDiffers(mItems[i])
          /\ NameOk(mItems[i]) /\ YearOk(mItems[i])
          /\ mRet # mItems[i]

\* a candidate is acceptable by id, or by name and year
AcceptableById(item) == ~KindDiffers(item) /\ IdEquals(item)
AcceptableByText(item) ==
    ~KindDiffers(item) /\ ~IdConflicts(item) /\ NameOk(item) /\ YearOk(item)
Acceptable(item) == AcceptableById(item) \/ AcceptableByText(item)
AcceptableAt == {i \in 1..Len(mItems) : Acceptable(mItems[i])}
FirstAcceptable == CHOOSE i \in AcceptableAt : \A j \in AcceptableAt : i <= j

\* C6: the candidates are scanned in list order; a candidate (not skipped
\* for kind) whose tmdbId equals the supplied tmdbId as an integer is
\* accepted without its name or year having to match, and the returned
\* item is the first candidate in list order acceptable by id or by
\* name+year (none when no candidate is acceptable).
C6_FirstAcceptableReturned ==
    mCalled =>
        IF AcceptableAt = {} THEN mRet = NoMatch
        ELSE mRet = mItems[FirstAcceptable]

\* the call returned a candidate on its id alone (neither name nor year
\* matches), although another candidate of the list matches by name+year
C6_Witness ==
    /\ mReturned /\ AcceptableById(mRet)
    /\ ~NameOk(mRet) /\ ~YearOk(mRet)
    /\ \E i \in 1..Len(mItems) :
          mItems[i] # mRet /\ AcceptableByText(mItems[i])

\* C7: a candidate returned on textual grounds (not by its id) has a name
\* equal to the title or to title + " " + year AND a release year whose
\* string form equals the string form of the supplied year.
C7_TextMatchNeedsBoth ==
    (mReturned /\ ~IdEquals(mRet)) => (NameOk(mRet) /\ YearOk(mRet))

\* a candidate was returned on textual grounds after a candidate that
\* satisfies exactly one of the two conditions was passed over; the supplied
\* year or that candidate's release year is absent
C7_Witness ==
    /\ mReturned /\ ~IdEquals(mRet)
    /\ \E i \in 1..Len(mItems) :
          /\ mItems[i].id < mRet.id
          /\ ~KindDiffers(mItems[i]) /\ ~IdConflicts(mItems[i])
          /\ NameOk(mItems[i]) # YearOk(mItems[i])
          /\ mArgs.year = Null \/ mItems[i].releaseYear = Null

\* ------------------------------------------------------------------------
\* Properties of categorizeWarning (checked under SpecClassify)
\* ------------------------------------------------------------------------
\* both counts of the stat are numbers
HasCounts == cStat.yesSum.type = "number" /\ cStat.noSum.type = "number"
cYes == cStat.yesSum.num
cNo == cStat.noSum.num
cTotal == cYes + cNo

\* Wilson score interval of yes/total at z = 1.645 (90%, z^2 = 2.706).
\* lower > 1/2 iff p - 1/2 > spread, that is iff 2*yes > total and
\* total*(2*yes - total)^2 > z^2 * (4*yes*no + z^2 * total); upper < 1/2 is
\* the mirror image. Both sides are scaled by 250000 to stay in integers.
WilsonMargin(yes, no) ==
    250000 * (yes + no) * (2 * yes - (yes + no)) * (2 * yes - (yes + no))
        > 1353 * (2000 * yes * no + 1353 * (yes + no))
WilsonLowerAboveHalf(yes, no) == 2 * yes > yes + no /\ WilsonMargin(yes, no)
WilsonUpperBelowHalf(yes, no) == 2 * yes < yes + no /\ WilsonMargin(yes, no)

\* steps 3 to 5 of the classification procedure
WilsonCategory(yes, no) ==
    IF WilsonLowerAboveHalf(yes, no) THEN "yes"
    ELSE IF WilsonUpperBelowHalf(yes, no) THEN "no"
    ELSE IF yes > no THEN "yes"
    ELSE IF no > yes THEN "no"
    ELSE "mixed"

\* C10: for every topic stat with at least the minimum number of votes,
\* categorizeWarning returns yes when the Wilson lower bound exceeds 0.5,
\* no when the Wilson upper bound is below 0.5, and otherwise the raw
\* comparison (yes, no, or mixed on a tie); it never returns unknown.
C10_ClassifiedAsWilsonProcedure ==
    (cCalled /\ HasCounts /\ cTotal >= MIN_VOTES_THRESHOLD) =>
        /\ cCategory = WilsonCategory(cYes, cNo)
        /\ cCategory # "unknown"

\* a stat with enough votes whose interval straddles 0.5 was classified yes
\* by the raw comparison
C10_Witness ==
    /\ cCalled /\ cCategory = "yes"
    /\ HasCounts /\ cTotal >= MIN_VOTES_THRESHOLD
    /\ ~WilsonLowerAboveHalf(cYes, cNo) /\ ~WilsonUpperBelowHalf(cYes, cNo)


\* C11: the minimum-vote threshold depends on the sensitive flag, the
\* sensitive one being the lower: a sensitive topic with yes=1, no=0 is
\* classified yes or no, a non-sensitive topic with the same counts unknown.
C11_SensitiveThresholdLower ==
    (cCalled /\ HasCounts /\ cYes = 1 /\ cNo = 0) =>
        IF cStat.isSensitive THEN cCategory \in {"yes", "no"}
        ELSE cCategory = "unknown"

\* C12: a topic stat whose yes count and/or no count is missing is treated
\* as yes=0, no=0: categorizeWarning returns unknown for it.
C12_MissingCountsAreUnknown ==
    (cCalled /\ ~HasCounts) => cCategory = "unknown"

\* C17: for every topic stat with yes=0 and no=0 categorizeWarning returns
\* unknown, whatever the sensitivity flag.
C17_NoVotesIsUnknown ==
    (cCalled /\ HasCounts /\ cYes = 0 /\ cNo = 0) => cCategory = "unknown"

\* a sensitive stat without any vote has been classified
C17_Witness ==
    /\ cCalled /\ HasCounts /\ cYes = 0 /\ cNo = 0
    /\ cStat.isSensitive

\* ------------------------------------------------------------------------
\* Properties of categorizeWarning on two stats (checked under SpecPair)
\* ------------------------------------------------------------------------
\* the second stat has the same total as the first and more yes votes
SameTotalMoreYes ==
    /\ pStatA.yesSum.num + pStatA.noSum.num
          = pStatB.yesSum.num + pStatB.noSum.num
    /\ pStatB.yesSum.num > pStatA.yesSum.num

\* C18: of two votes with the same total, the second with more yes votes
\* (and fewer no votes), if the first is classified yes the second is not
\* classified no.
C18_Monotone ==
    (SameTotalMoreYes /\ pCatA = "yes") => pCatB # "no"

\* both votes have been classified, the first as yes, the second has the
\* same total and more yes votes
C18_Witness ==
    /\ SameTotalMoreYes
    /\ pCatA = "yes" /\ pCatB \in {"yes", "no", "mixed", "unknown"}

\* ------------------------------------------------------------------------
\* Properties of buildPanelHtml (SpecRank)
\* ------------------------------------------------------------------------
\* the display cap the user configured when the panel was built
ConfiguredCap == IF rCap = Undefined THEN DEFAULT_MAX_WARNINGS ELSE rCap.num

IsPinned(t) == t.topicId \in rPinnedIds
PinnedPositions == {i \in 1..Len(rTopics) : IsPinned(rTopics[i])}
YesPositions ==
    {i \in 1..Len(rTopics) :
        ~IsPinned(rTopics[i]) /\ categorizeWarning(rTopics[i]) = "yes"}
Min(a, b) == IF a < b THEN a ELSE b

\* C13: the automatic list never holds more than the configured display cap
\* of items, and the pinned list is not truncated: it holds every pinned
\* topic of the vote set.
C13_AutomaticWithinCap ==
    rBuilt =>
        /\ Len(rAutoList) <= ConfiguredCap
        /\ Len(rPinnedList) = Cardinality(PinnedPositions)

\* C14: every topic of the vote set whose id is pinned is in the pinned list,
\* whatever its category, and an entry's rendering tells its category: the
\* 'no' and 'unknown' looks belong to those categories and the plain look,
\* the one of the automatic yes entries, to a yes.
C14_PinnedByMembershipTrueCategory ==
    rBuilt =>
        /\ \A i \in PinnedPositions :
              \E k \in 1..Len(rPinnedList) : rPinnedList[k].stat = rTopics[i]
        /\ \A k \in 1..Len(rPinnedList) :
              LET category == categorizeWarning(rPinnedList[k].stat)
                  class == rPinnedList[k].statusClass
              IN /\ IsPinned(rPinnedList[k].stat)
                 /\ class = "dtdd-status-no" <=> category = "no"
                 /\ class = "dtdd-status-unknown" <=> category = "unknown"
                 /\ class = "" <=> category = "yes"

\* a ranks before b by (sensitive descending, yes-count descending)
SensitiveThenYes(a, b) ==
    \/ a.isSensitive /\ ~b.isSensitive
    \/ a.isSensitive = b.isSensitive /\ a.yesSum.num >= b.yesSum.num

\* C15: the automatic list is the non-pinned topics classified yes, ordered
\* by (sensitive descending, yes-count descending), cut to the first cap
\* items.
C15_AutomaticSortedAndCut ==
    rBuilt =>
        /\ Len(rAutoList) = Min(ConfiguredCap, Cardinality(YesPositions))
        /\ \A k \in 1..Len(rAutoList) :
              \E i \in YesPositions : rAutoList[k] = rTopics[i]
        /\ \A k, l \in 1..Len(rAutoList) :
              k < l => /\ rAutoList[k] # rAutoList[l]
                       /\ SensitiveThenYes(rAutoList[k], rAutoList[l])
        /\ \A i \in YesPositions :
              (\A k \in 1..Len(rAutoList) : rAutoList[k] # rTopics[i])
                  => \A k \in 1..Len(rAutoList) :
                        SensitiveThenYes(rAutoList[k], rTopics[i])

\* C16: in the pinned list, topics of one sensitivity are ordered by category
\* rank (yes 0, no 1, mixed or unknown 2) and then by yes-count descending,
\* and a non-sensitive topic precedes a sensitive one only when its category
\* has strictly higher priority.
C16_PinnedSensitiveFirst ==
    rBuilt =>
        \A k, l \in 1..Len(rPinnedList) :
            k < l =>
                LET a == rPinnedList[k].stat
                    b == rPinnedList[l].stat
                    aRank == warningOrder(categorizeWarning(a))
                    bRank == warningOrder(categorizeWarning(b))
                IN /\ a.isSensitive = b.isSensitive
                        => \/ aRank < bRank
                           \/ aRank = bRank /\ a.yesSum.num >= b.yesSum.num
                   /\ ~a.isSensitive /\ b.isSensitive => aRank < bRank

\* ------------------------------------------------------------------------
\* Properties of handleTopicToggle (SpecToggle)
\* ------------------------------------------------------------------------
AllTogglesCompleted == \A k \in 1..Len(toggles) : toggles[k].pc = "done"

\* a checkbox shows the last toggle of its topic
LastChecked == {t \in ToggleTopics : checkbox[t]}

\* C20: once every handleTopicToggle invocation has completed, the stored
\* pinned set is the set of topics whose last toggle was 'checked'.
C20_NoToggleLost == AllTogglesCompleted => storedPinned = LastChecked

\* ------------------------------------------------------------------------
\* Properties of the background listener and fetchDtdd (FairSpecFetch)
\* ------------------------------------------------------------------------
\* {error: null, data} or {error: message, data: null}
WellFormedResponse(r) ==
    /\ ~r.lastError
    /\ \/ r.error = Null
       \/ r.error.type = "string" /\ r.error.str # "" /\ r.data = NullResult

\* the listener has taken up a DTDD_FETCH message
FetchHandled ==
    bgName = "DTDD_FETCH" /\ bgPc \in {"storage", "fetch", "json", "done"}

OneResponseNoRejection ==
    /\ Len(bgSent) <= 1
    /\ \A k \in 1..Len(bgSent) : WellFormedResponse(bgSent[k])
    /\ bgName = "DTDD_FETCH" /\ bgPc = "done" => Len(bgSent) = 1
    /\ fCallbacks <= 1
    /\ fPromise # "rejected"
    /\ fPromise = "resolved" =>
          /\ fCallbacks = 1
          /\ \/ fValue = NullResult
             \/ /\ Len(bgSent) = 1
                /\ bgSent[1].error = Null
                /\ fValue = bgSent[1].data

\* C21: every DTDD_FETCH message the listener handles gets exactly one
\* response, {error: null, data} or {error: message, data: null}, on every
\* path, and the promise of fetchDtdd resolves (to the data or to null) and
\* never rejects.
C21_OneResponseAlwaysResolves ==
    /\ []OneResponseNoRejection
    /\ FetchHandled ~> (Len(bgSent) = 1)
    /\ (fPromise = "pending") ~> (fPromise = "resolved")

\* a handled message whose fetch threw: the error response was sent and the
\* promise resolved to null
C21_Witness ==
    /\ bgName = "DTDD_FETCH" /\ bgPc = "done"
    /\ Len(bgSent) = 1 /\ bgSent[1].via = "exception"
    /\ fPromise = "resolved" /\ fValue = NullResult

\* ------------------------------------------------------------------------
\* Properties of init and loadData (FairSpecLifecycle)
\* ------------------------------------------------------------------------
TerminalPanels == {"loaded", "not-found", "error"}

LoadDataStarted == loadRuns > 0

PanelLifecycle ==
    /\ loadRuns <= 1
    /\ LoadDataStarted => panel # "none" /\ observer # "observing"
    /\ ~LoadDataStarted => panel = "none"
    /\ panel \in TerminalPanels <=> pc = "done"

\* C22: loadData is started only after the loading panel has been injected
\* and at most once per page load (from init, or from the observer callback,
\* which disconnects the observer); the run replaces the loading panel with
\* one of loaded, not-found and error, which then stays, so the panel does
\* not stay in the loading state.
C22_PanelLifecycle ==
    /\ []PanelLifecycle
    /\ [][(panel \in TerminalPanels) => (panel' = panel)]_vars
    /\ LoadDataStarted ~> (panel \in TerminalPanels)

\* loadData was started by the observer callback and has shown the topics
C22_Witness ==
    /\ loadRuns = 1 /\ observer = "disconnected" /\ timer = "armed"
    /\ panel = "loaded" /\ pc = "done"

\* ------------------------------------------------------------------------
\* Properties of the two lists of buildPanelHtml (SpecRank)
\* ------------------------------------------------------------------------
InAutoList(t) == \E l \in 1..Len(rAutoList) : rAutoList[l] = t
InPinnedList(t) == \E k \in 1..Len(rPinnedList) : rPinnedList[k].stat = t
InVoteSet(t) == \E i \in 1..Len(rTopics) : rTopics[i] = t

\* C23: the pinned and the automatic list are disjoint and drawn from the
\* vote set; a pinned topic classified yes is in the pinned list only, and
\* takes no slot of the automatic list: a non-pinned yes topic is left out
\* only when the automatic list is full of non-pinned topics.
C23_ListsDisjoint ==
    rBuilt =>
        /\ \A k \in 1..Len(rPinnedList) :
              /\ InVoteSet(rPinnedList[k].stat)
              /\ IsPinned(rPinnedList[k].stat)
              /\ ~InAutoList(rPinnedList[k].stat)
        /\ \A l \in 1..Len(rAutoList) :
              /\ InVoteSet(rAutoList[l])
              /\ ~IsPinned(rAutoList[l])
              /\ ~InPinnedList(rAutoList[l])
        /\ \A i \in PinnedPositions :
              categorizeWarning(rTopics[i]) = "yes"
                  => InPinnedList(rTopics[i]) /\ ~InAutoList(rTopics[i])
        /\ \A i \in YesPositions :
              ~InAutoList(rTopics[i]) => Len(rAutoList) = YES_TOPICS_LIMIT

\* eleven topics classified yes, one of them pinned: the ten others fill
\* the automatic list
C23_Witness ==
    /\ rBuilt
    /\ Len(rTopics) = YES_TOPICS_LIMIT + 1
    /\ \E i \in PinnedPositions : categorizeWarning(rTopics[i]) = "yes"
    /\ Cardinality(PinnedPositions) = 1
    /\ Len(rAutoList) = YES_TOPICS_LIMIT
    /\ Len(rPinnedList) = 1

====
